---- MODULE Spec2Model ----
(***************************************************************************)
(* The agentic research loop of the deep-search chat application:          *)
(* runAgentLoop (run-agent-loop.ts), its state container SystemContext     *)
(* and the Action Chooser getNextAction (system-context.ts), and the       *)
(* Answer Synthesizer answerQuestion (answer-question.ts).                 *)
(*                                                                         *)
(* Texts are sequences of tokens; every token is a tuple of strings, so    *)
(* that Array.join is a real concatenation with separator tokens.          *)
(***************************************************************************)
EXTENDS Integers, Sequences, FiniteSets, TLC

VARIABLES
    pc,              \* position of runAgentLoop: which await it is suspended at
    step,            \* SystemContext.step
    queryHistory,    \* SystemContext.queryHistory
    scrapeHistory,   \* SystemContext.scrapeHistory
    nextAction,      \* the Action returned by the last getNextAction call
    isFinal,         \* the isFinal option of the answerQuestion call in flight
    result,          \* the value runAgentLoop resolved with
    hasSink,         \* whether writeMessageAnnotation was supplied
    nAnnotations,    \* number of writeMessageAnnotation invocations
    lastAnnotation,  \* the last annotation handed to the sink
    annotatedAt,     \* search, scrape and answer calls started before it
    settled,         \* collaborator calls that have resolved or rejected
    fullText,        \* answerQuestion: the text accumulated from the stream
    chunksRead,      \* the chunks the generation stream has yielded
    streamDone,      \* the generation stream has reported its end
    chooserCalls,    \* getNextAction calls started
    searchCalls,     \* searchWeb calls started
    scrapeCalls,     \* scrapeUrl calls started
    synthCalls,      \* answerQuestion calls started with isFinal = false
    synthFinalCalls, \* answerQuestion calls started with isFinal = true
    answerChosen,    \* the chooser has returned an answer action
    synthText,       \* the text the answerQuestion call returned
    failedCall,      \* the collaborator call whose error ended the loop
    scrapeReplies,   \* responses the scrape collaborator has returned
    lastCrawl,       \* the last of these responses
    lastOp,          \* the SystemContext method called last (direct calls)
    ret,             \* the value that method returned
    reportedQueries, \* the arguments of the reportQueries calls, in call order
    reportedScrapes, \* the arguments of the reportScrapes calls, in call order
    cancelled,       \* the request-handling layer has signalled cancellation
    other,           \* a second invocation of runAgentLoop, while it is not running
    active,          \* which of the two invocations the other variables describe
    config,          \* the RateLimitConfig the rate limiter is called with
    now,             \* the clock, in ticks
    hits,            \* the counter the rate limiter keeps for a window
    hitsWindow,      \* the window that counter belongs to
    rateResult,      \* what the last checkRateLimit call reported
    recordedAt,      \* the times of the recordRateLimit calls, in call order
    rpc,             \* position of the chat route's POST handler
    request,         \* the session and the body of the request it handles
    response,        \* the status of the Response it returned
    currentChatId,   \* POST: currentChatId
    dataStream,      \* the parts written to or merged into the data stream
    upserts,         \* the arguments of the upsertChat calls that resolved
    chats,           \* the chats table with each chat's messages
    agentFailed,     \* runAgentLoop rejected
    userRequests,    \* rows of the user in the userRequests table, created today
    isAdmin,         \* users.isAdmin of that user
    handlers,        \* the chat requests of the user that are being handled
    chatTable,       \* the chats table: the row of each chat id
    msgTable,        \* the messages table: its rows
    calls,           \* the upsertChat calls in progress, each at one of its awaits
    upsertLog        \* the arguments the upsertChat calls were made with

ctxVars == <<step, queryHistory, scrapeHistory>>
streamVars == <<fullText, chunksRead, streamDone>>
sinkVars == <<nAnnotations, lastAnnotation, annotatedAt>>
loopVars == <<pc, nextAction, isFinal, result, hasSink, sinkVars, settled,
              streamVars, chooserCalls, searchCalls, scrapeCalls, synthCalls,
              synthFinalCalls, answerChosen, synthText, failedCall,
              scrapeReplies, lastCrawl>>
callVars == <<lastOp, ret, reportedQueries, reportedScrapes>>
envVars == <<cancelled>>
pairVars == <<other, active>>
rateVars == <<config, now, hits, hitsWindow, rateResult, recordedAt>>
routeVars == <<rpc, request, response, currentChatId, dataStream, upserts,
               chats, agentFailed>>
limitVars == <<userRequests, isAdmin, handlers>>
upsertVars == <<chatTable, msgTable, calls, upsertLog>>
dbVars == <<limitVars, upsertVars>>
restVars == <<envVars, pairVars, rateVars, routeVars, dbVars>>
\* everything outside the invocation of runAgentLoop
outerVars == <<callVars, restVars>>
vars == <<ctxVars, loopVars, outerVars>>

\* values of variables nothing has been assigned to yet
None == <<"none">>
NoText == <<"<unset>">>
NoAction == [type |-> "none"]
NoFrame == [pc |-> "none"]
NoConfig == [keyPrefix |-> "none"]
NoResult == [at |-> -1, seen |-> 0]
NoRequest == [session |-> "none"]
NoResponse == [status |-> 0]
NoSession == "null"
NoChatId == "undefined"
NoChat == [userId |-> "none"]
ChatIds == {"c1", "new"}
Idle == [pc |-> "idle", status |-> 0]
NoCall == [pc |-> "idle"]

(***************************************************************************)
(* Bounds of the model and the inputs the collaborators are drawn from.    *)
(***************************************************************************)
\* Scrape actions the chooser returns in one execution.
MaxScrapes == 2
\* Chat requests of one user that are handled at the same time.
MaxHandlers == 2
Handlers == 1..MaxHandlers
\* Rows the userRequests table holds for the user.
MaxRows == 103
\* the two upsertChat calls that may overlap
Callers == {1, 2}
\* Different arguments upsertChat is called with in one execution.
MaxUpserts == 3
\* Largest step counter reached by direct calls of SystemContext methods.
MaxCtxStep == 12
\* Records held by a context driven by direct calls.
MaxCtxRecords == 2
\* reportQueries calls, and reportScrapes calls, made directly on a context.
MaxCtxBatches == 2

\* Organic results of the search service; the second one carries no date.
Dated == [title |-> "T1", link |-> "L1", snippet |-> "S1", date |-> "D1"]
Undated == [title |-> "T2", link |-> "L2", snippet |-> "S2"]
SerperResponses == {<<>>, <<Dated, Undated>>}

Queries == {"X"}
UrlLists == {<<"a", "b">>}
\* Chunks the generation stream yields.
Streams == {<<>>, <<<<"w1", "w2">>, <<"w3">>>>}

(***************************************************************************)
(* Text helpers.                                                           *)
(***************************************************************************)
Sep == <<"\n\n">>

RECURSIVE Join(_)
\* Array.prototype.join("\n\n") over texts
Join(texts) ==
    IF Len(texts) = 0 THEN <<>>
    ELSE IF Len(texts) = 1 THEN texts[1]
    ELSE texts[1] \o <<Sep>> \o Join(Tail(texts))

IsPrefix(s, t) == Len(s) <= Len(t) /\ SubSeq(t, 1, Len(s)) = s

RECURSIVE Concat(_)
\* fullText += chunk, over the whole stream
Concat(chunks) ==
    IF Len(chunks) = 0 THEN <<>> ELSE chunks[1] \o Concat(Tail(chunks))

(***************************************************************************)
(* SystemContext.                                                          *)
(***************************************************************************)
\* faulty variants: the budget test off by one, or an equality test
shouldStopLate(s) == s > 10
shouldStopEarly(s) == s >= 9
shouldStopExactly(s) == s = 10

shouldStop(s) == s >= 10

\* faulty variant: the counter advanced twice per iteration
incrementStepTwice(s) == s + 2

\* faulty variant: the counter held at the budget
incrementStepClamped(s) == IF s >= 10 THEN s ELSE s + 1

incrementStep(s) == s + 1

getStep(s) == s

\* faulty variant: unshift instead of push
reportQueriesPrepend(history, queries) == queries \o history

reportQueries(history, queries) == history \o queries

\* faulty variant: a record already held is not stored again
reportScrapesDistinct(history, scrapes) ==
    history \o SelectSeq(scrapes, LAMBDA r : \A i \in 1..Len(history) : history[i] # r)

reportScrapes(history, scrapes) == history \o scrapes

toQueryResult(query) ==
    Join(<< <<<<"### ", query.date, " - ", query.title>>>>,
            <<<<query.url>>>>,
            <<<<query.snippet>>>> >>)

renderQuery(query) ==
    Join(<< <<<<"## Query: ", query.query>>>> >>
         \o [i \in 1..Len(query.results) |-> toQueryResult(query.results[i])])

getQueryHistory(history) == Join([i \in 1..Len(history) |-> renderQuery(history[i])])

renderScrape(scrape) ==
    Join(<< <<<<"## Scrape: ", scrape.url>>>>,
            <<<<"<scrape_result>">>>>,
            <<<<scrape.result>>>>,
            <<<<"</scrape_result>">>>> >>)

getScrapeHistory(history) == Join([i \in 1..Len(history) |-> renderScrape(history[i])])

(***************************************************************************)
(* The collaborators' replies.                                             *)
(***************************************************************************)
\* getNextAction: any object the schema admits for the three action types
Actions(scrapesSoFar) ==
    [type : {"search"}, query : Queries]
        \cup (IF scrapesSoFar < MaxScrapes
              THEN [type : {"scrape"}, urls : UrlLists] ELSE {})
        \cup [type : {"answer"}]

\* bulkCrawlWebsites: one result per URL, success only when every URL succeeded
CrawlResponses(urls) ==
    { [success |-> \A i \in 1..Len(urls) : ok[i],
       results |-> [i \in 1..Len(urls) |->
                      [url |-> urls[i],
                       result |-> IF ok[i]
                                  THEN [success |-> TRUE, data |-> "page"]
                                  ELSE [success |-> FALSE, error |-> "err"]]]]
      : ok \in [1..Len(urls) -> BOOLEAN] }

(***************************************************************************)
(* run-agent-loop.ts                                                       *)
(***************************************************************************)
searchWebResult(r) ==
    [title |-> r.title, link |-> r.link, snippet |-> r.snippet,
     date |-> IF "date" \in DOMAIN r /\ r.date # "" THEN r.date ELSE ""]

searchWeb(organic) == [i \in 1..Len(organic) |-> searchWebResult(organic[i])]

scrapeUrlFailedResult(r) ==
    [url |-> r.url, success |-> r.result.success,
     data |-> IF r.result.success THEN r.result.data ELSE r.result.error]

scrapeUrlResult(r) ==
    [url |-> r.url, success |-> r.result.success, data |-> r.result.data]

scrapeUrl(crawl) ==
    IF ~crawl.success
    THEN [error |-> "crawl failed",
          results |-> [i \in 1..Len(crawl.results) |->
                         scrapeUrlFailedResult(crawl.results[i])]]
    ELSE [results |-> [i \in 1..Len(crawl.results) |->
                         scrapeUrlResult(crawl.results[i])]]

queryRecordResult(r) ==
    [date |-> r.date, title |-> r.title, url |-> r.link, snippet |-> r.snippet]

\* nextAction.query: the schema leaves the property optional
actionQuery(action) ==
    IF "query" \in DOMAIN action THEN action.query ELSE "undefined"

\* nextAction.urls handed to the crawler; without the property it gets no list
actionUrls(action) ==
    IF "urls" \in DOMAIN action THEN action.urls ELSE <<>>

\* the records the search branch reports
queryRecords(action, searchResults) ==
    << [query |-> actionQuery(action),
        results |-> [i \in 1..Len(searchResults) |->
                       queryRecordResult(searchResults[i])]] >>

RECURSIVE successful(_)
\* .filter((result) => result.success)
successful(results) ==
    IF Len(results) = 0 THEN <<>>
    ELSE IF results[1].success THEN <<results[1]>> \o successful(Tail(results))
    ELSE successful(Tail(results))

scrapeRecord(r) == [url |-> r.url, result |-> r.data]

\* faulty variant: the success filter left out
scrapeRecordsUnfiltered(scrapeResults) ==
    [i \in 1..Len(scrapeResults.results) |-> scrapeRecord(scrapeResults.results[i])]

\* the records the scrape branch reports
scrapeRecords(scrapeResults) ==
    [i \in 1..Len(successful(scrapeResults.results)) |->
        scrapeRecord(successful(scrapeResults.results)[i])]

\* while (!ctx.shouldStop()) { getNextAction } ... answerQuestion(isFinal: true)
LoopHead(s) ==
    IF shouldStop(s)
    THEN /\ pc' = "answering"
         /\ isFinal' = TRUE
         /\ synthFinalCalls' = synthFinalCalls + 1
         /\ UNCHANGED chooserCalls
    ELSE /\ pc' = "choosing"
         /\ chooserCalls' = chooserCalls + 1
         /\ UNCHANGED <<isFinal, synthFinalCalls>>

\* faulty variant: a finally block that still counts the failed iteration
ThrowAfterIncrement ==
    /\ pc' = "failed"
    /\ failedCall' = pc
    /\ settled' = settled + 1
    /\ step' = step + 1
    /\ UNCHANGED <<queryHistory, scrapeHistory, outerVars, streamVars, sinkVars,
                   nextAction, isFinal, result, hasSink, chooserCalls,
                   searchCalls, scrapeCalls, synthCalls, synthFinalCalls,
                   answerChosen, synthText, scrapeReplies, lastCrawl>>

\* a rejected await: nothing catches it, the promise of runAgentLoop rejects
Throw ==
    /\ pc' = "failed"
    /\ failedCall' = pc
    /\ settled' = settled + 1
    /\ UNCHANGED <<ctxVars, outerVars, streamVars, sinkVars, nextAction, isFinal,
                   result, hasSink, chooserCalls, searchCalls, scrapeCalls,
                   synthCalls, synthFinalCalls, answerChosen, synthText,
                   scrapeReplies, lastCrawl>>

Init ==
    /\ pc = "start"
    /\ step = 0
    /\ queryHistory = <<>>
    /\ scrapeHistory = <<>>
    /\ nextAction = NoAction
    /\ isFinal = FALSE
    /\ result = NoText
    /\ hasSink \in BOOLEAN
    /\ nAnnotations = 0
    /\ lastAnnotation = NoAction
    /\ annotatedAt = 0
    /\ settled = 0
    /\ fullText = <<>>
    /\ chunksRead = <<>>
    /\ streamDone = FALSE
    /\ chooserCalls = 0
    /\ searchCalls = 0
    /\ scrapeCalls = 0
    /\ synthCalls = 0
    /\ synthFinalCalls = 0
    /\ answerChosen = FALSE
    /\ synthText = NoText
    /\ failedCall = "none"
    /\ scrapeReplies = 0
    /\ lastCrawl = NoAction
    /\ lastOp = "none"
    /\ ret = None
    /\ reportedQueries = <<>>
    /\ reportedScrapes = <<>>
    /\ cancelled = FALSE
    /\ other = NoFrame
    /\ active = 1
    /\ config = NoConfig
    /\ now = 0
    /\ hits = 0
    /\ hitsWindow = 0
    /\ rateResult = NoResult
    /\ recordedAt = <<>>
    /\ rpc = "idle"
    /\ request = NoRequest
    /\ response = NoResponse
    /\ currentChatId = NoChatId
    /\ dataStream = <<>>
    /\ upserts = <<>>
    /\ chats = [id \in ChatIds |-> NoChat]
    /\ agentFailed = FALSE
    /\ userRequests = 0
    /\ isAdmin = FALSE
    /\ handlers = [h \in Handlers |-> Idle]
    /\ chatTable = [id \in ChatIds |-> NoChat]
    /\ msgTable = {}
    /\ calls = [c \in Callers |-> NoCall]
    /\ upsertLog = {}

\* runAgentLoop is called: new SystemContext(), first loop test
RunAgentLoop ==
    /\ pc = "start"
    /\ LoopHead(step)
    /\ UNCHANGED <<ctxVars, outerVars, streamVars, sinkVars, settled, nextAction,
                   result, hasSink, searchCalls, scrapeCalls, synthCalls,
                   answerChosen, synthText, failedCall, scrapeReplies, lastCrawl>>

\* the search, scrape and answer calls started so far
callsStarted == searchCalls + scrapeCalls + synthCalls + synthFinalCalls

\* faulty variant: the sink is told after the action's call has started
AnnotateAfterCall(action) ==
    IF hasSink
    THEN /\ nAnnotations' = nAnnotations + 1
         /\ lastAnnotation' = [type |-> "NEW_ACTION", action |-> action]
         /\ annotatedAt' = callsStarted + 1
    ELSE UNCHANGED sinkVars

\* if (writeMessageAnnotation) writeMessageAnnotation({type, action})
Annotate(action) ==
    IF hasSink
    THEN /\ nAnnotations' = nAnnotations + 1
         /\ lastAnnotation' = [type |-> "NEW_ACTION", action |-> action]
         /\ annotatedAt' = callsStarted
    ELSE UNCHANGED sinkVars

\* faulty variant: a search action starts the search and a scrape together
DispatchSearchAndScrape(action) ==
    CASE action.type = "search" ->
            /\ pc' = "searching"
            /\ searchCalls' = searchCalls + 1
            /\ scrapeCalls' = scrapeCalls + 1
            /\ UNCHANGED <<synthCalls, synthFinalCalls, answerChosen, isFinal>>
      [] action.type = "scrape" ->
            /\ pc' = "scraping"
            /\ scrapeCalls' = scrapeCalls + 1
            /\ UNCHANGED <<searchCalls, synthCalls, synthFinalCalls, answerChosen,
                           isFinal>>
      [] action.type = "answer" ->
            /\ pc' = "answering"
            /\ isFinal' = FALSE
            /\ synthCalls' = synthCalls + 1
            /\ answerChosen' = TRUE
            /\ UNCHANGED <<searchCalls, scrapeCalls, synthFinalCalls>>

\* faulty variant: the answer branch asks for a best-effort answer
DispatchAnswerBestEffort(action) ==
    CASE action.type = "search" ->
            /\ pc' = "searching"
            /\ searchCalls' = searchCalls + 1
            /\ UNCHANGED <<scrapeCalls, synthCalls, synthFinalCalls, answerChosen,
                           isFinal>>
      [] action.type = "scrape" ->
            /\ pc' = "scraping"
            /\ scrapeCalls' = scrapeCalls + 1
            /\ UNCHANGED <<searchCalls, synthCalls, synthFinalCalls, answerChosen,
                           isFinal>>
      [] action.type = "answer" ->
            /\ pc' = "answering"
            /\ isFinal' = TRUE
            /\ synthFinalCalls' = synthFinalCalls + 1
            /\ answerChosen' = TRUE
            /\ UNCHANGED <<searchCalls, scrapeCalls, synthCalls>>

\* the branch taken on the chosen action, up to its await
Dispatch(action) ==
    CASE action.type = "search" ->
            /\ pc' = "searching"
            /\ searchCalls' = searchCalls + 1
            /\ UNCHANGED <<scrapeCalls, synthCalls, synthFinalCalls, answerChosen,
                           isFinal>>
      [] action.type = "scrape" ->
            /\ pc' = "scraping"
            /\ scrapeCalls' = scrapeCalls + 1
            /\ UNCHANGED <<searchCalls, synthCalls, synthFinalCalls, answerChosen,
                           isFinal>>
      [] action.type = "answer" ->
            /\ pc' = "answering"
            /\ isFinal' = FALSE
            /\ synthCalls' = synthCalls + 1
            /\ answerChosen' = TRUE
            /\ UNCHANGED <<searchCalls, scrapeCalls, synthFinalCalls>>

\* the loop from the resolved getNextAction to the await of the chosen action
Chosen(action) ==
    /\ nextAction' = action
    /\ Annotate(action)
    /\ Dispatch(action)
    /\ settled' = settled + 1
    /\ UNCHANGED <<ctxVars, outerVars, streamVars, result, hasSink, chooserCalls,
                   synthText, failedCall, scrapeReplies, lastCrawl>>

\* getNextAction resolves
ChooserReturns ==
    /\ pc = "choosing"
    /\ \E action \in Actions(scrapeCalls) : Chosen(action)

ChooserFails == pc = "choosing" /\ Throw

\* searchWeb resolves: reportQueries, incrementStep, next loop test
SearchReturns ==
    /\ pc = "searching"
    /\ \E organic \in SerperResponses :
        queryHistory' =
            reportQueries(queryHistory, queryRecords(nextAction, searchWeb(organic)))
    /\ step' = incrementStep(step)
    /\ LoopHead(step')
    /\ settled' = settled + 1
    /\ UNCHANGED <<scrapeHistory, outerVars, streamVars, sinkVars, nextAction,
                   result, hasSink, searchCalls, scrapeCalls, synthCalls,
                   answerChosen, synthText, failedCall, scrapeReplies, lastCrawl>>

SearchFails == pc = "searching" /\ Throw

\* faulty variant: the scrape branch skips incrementStep
ScrapeReturnsNoIncrement ==
    /\ pc = "scraping"
    /\ \E crawl \in CrawlResponses(actionUrls(nextAction)) :
        /\ lastCrawl' = crawl
        /\ scrapeHistory' =
               reportScrapes(scrapeHistory, scrapeRecords(scrapeUrl(crawl)))
    /\ scrapeReplies' = scrapeReplies + 1
    /\ LoopHead(step)
    /\ settled' = settled + 1
    /\ UNCHANGED <<step, queryHistory, outerVars, streamVars, sinkVars, nextAction,
                   result, hasSink, searchCalls, scrapeCalls, synthCalls,
                   answerChosen, synthText, failedCall>>

\* scrapeUrl resolves: reportScrapes, incrementStep, next loop test
ScrapeReturns ==
    /\ pc = "scraping"
    /\ \E crawl \in CrawlResponses(actionUrls(nextAction)) :
        /\ lastCrawl' = crawl
        /\ scrapeHistory' =
               reportScrapes(scrapeHistory, scrapeRecords(scrapeUrl(crawl)))
    /\ scrapeReplies' = scrapeReplies + 1
    /\ step' = incrementStep(step)
    /\ LoopHead(step')
    /\ settled' = settled + 1
    /\ UNCHANGED <<queryHistory, outerVars, streamVars, sinkVars, nextAction,
                   result, hasSink, searchCalls, scrapeCalls, synthCalls,
                   answerChosen, synthText, failedCall>>

ScrapeFails == pc = "scraping" /\ Throw

\* faulty variant: the answer is awaited but not returned
AnswerReturnsDropsText ==
    /\ pc = "answering"
    /\ \E chunks \in Streams :
        /\ chunksRead' = chunks
        /\ fullText' = Concat(chunks)
    /\ streamDone' = TRUE
    /\ synthText' = fullText'
    /\ pc' = "done"
    /\ settled' = settled + 1
    /\ UNCHANGED <<ctxVars, outerVars, sinkVars, nextAction, isFinal, result,
                   hasSink, chooserCalls, searchCalls, scrapeCalls, synthCalls,
                   synthFinalCalls, answerChosen, failedCall, scrapeReplies,
                   lastCrawl>>

\* faulty variant: the answer branch falls through to incrementStep
AnswerReturnsCounted ==
    /\ pc = "answering"
    /\ \E chunks \in Streams :
        /\ chunksRead' = chunks
        /\ fullText' = Concat(chunks)
    /\ streamDone' = TRUE
    /\ synthText' = fullText'
    /\ result' = synthText'
    /\ step' = incrementStep(step)
    /\ pc' = "done"
    /\ settled' = settled + 1
    /\ UNCHANGED <<queryHistory, scrapeHistory, outerVars, sinkVars, nextAction,
                   isFinal, hasSink, chooserCalls, searchCalls, scrapeCalls,
                   synthCalls, synthFinalCalls, answerChosen, failedCall,
                   scrapeReplies, lastCrawl>>

\* answerQuestion drains the stream and resolves; runAgentLoop returns its text
AnswerReturns ==
    /\ pc = "answering"
    /\ \E chunks \in Streams :
        /\ chunksRead' = chunks
        /\ fullText' = Concat(chunks)
    /\ streamDone' = TRUE
    /\ synthText' = fullText'
    /\ result' = synthText'
    /\ pc' = "done"
    /\ settled' = settled + 1
    /\ UNCHANGED <<ctxVars, outerVars, sinkVars, nextAction, isFinal, hasSink,
                   chooserCalls, searchCalls, scrapeCalls, synthCalls,
                   synthFinalCalls, answerChosen, failedCall, scrapeReplies,
                   lastCrawl>>

AnswerFails == pc = "answering" /\ Throw

Next ==
    \/ RunAgentLoop
    \/ ChooserReturns
    \/ ChooserFails
    \/ SearchReturns
    \/ SearchFails
    \/ ScrapeReturns
    \/ ScrapeFails
    \/ AnswerReturns
    \/ AnswerFails

Spec == Init /\ [][Next]_vars

\* every collaborator call in flight eventually settles
FairSpec == Spec /\ WF_vars(Next)

(***************************************************************************)
(* answerQuestion chunk by chunk: one step per iteration of the for await. *)
(***************************************************************************)
\* Chunks the text stream yields before it ends or fails.
MaxChunks == 3

Chunks == {<<>>, <<"w1", "w2">>, <<"w3">>}

\* the chooser picks the answer, so that answerQuestion is called
ChooserAnswers == pc = "choosing" /\ Chosen([type |-> "answer"])

\* faulty variant: the text is returned from inside the loop
ReadChunkAndReturn(chunk) ==
    /\ fullText' = fullText \o chunk
    /\ chunksRead' = Append(chunksRead, chunk)
    /\ synthText' = fullText'
    /\ result' = synthText'
    /\ pc' = "done"
    /\ settled' = settled + 1
    /\ UNCHANGED streamDone

\* fullText += chunk
ReadChunk(chunk) ==
    /\ fullText' = fullText \o chunk
    /\ chunksRead' = Append(chunksRead, chunk)
    /\ UNCHANGED <<streamDone, synthText, result, pc, settled>>

\* the stream yields its next chunk
StreamChunk ==
    /\ pc = "answering"
    /\ Len(chunksRead) < MaxChunks
    /\ \E chunk \in Chunks : ReadChunk(chunk)
    /\ UNCHANGED <<ctxVars, outerVars, sinkVars, nextAction, isFinal, hasSink,
                   chooserCalls, searchCalls, scrapeCalls, synthCalls,
                   synthFinalCalls, answerChosen, failedCall, scrapeReplies,
                   lastCrawl>>

\* the stream ends: the loop is left, fullText is returned to runAgentLoop
StreamEnds ==
    /\ pc = "answering"
    /\ streamDone' = TRUE
    /\ synthText' = fullText
    /\ result' = synthText'
    /\ pc' = "done"
    /\ settled' = settled + 1
    /\ UNCHANGED <<ctxVars, outerVars, sinkVars, nextAction, isFinal, hasSink,
                   fullText, chunksRead, chooserCalls, searchCalls, scrapeCalls,
                   synthCalls, synthFinalCalls, answerChosen, failedCall,
                   scrapeReplies, lastCrawl>>

\* streamText or the iteration of the stream rejects
StreamFails == pc = "answering" /\ Throw

AnswerNext ==
    \/ RunAgentLoop
    \/ ChooserAnswers
    \/ StreamChunk
    \/ StreamEnds
    \/ StreamFails

AnswerSpec == Init /\ [][AnswerNext]_vars

(***************************************************************************)
(* A chooser that uses the whole schema: query and urls are optional.      *)
(***************************************************************************)
\* Iterations in which the chooser may leave out query or urls.
MaxGapIterations == 1

\* objects the schema admits although the payload of their type is missing
GapActions ==
    {[type |-> "search"], [type |-> "scrape"], [type |-> "scrape", urls |-> <<>>]}

\* getNextAction resolves with such an object: result.object as Action
ChooserReturnsGap ==
    /\ pc = "choosing"
    /\ chooserCalls <= MaxGapIterations
    /\ \E action \in GapActions : Chosen(action)

GapNext == Next \/ ChooserReturnsGap

GapSpec == Init /\ [][GapNext]_vars

(***************************************************************************)
(* Cancellation of the request while the loop runs.                        *)
(***************************************************************************)
\* the abort signal of the request, as a call argument
RequestSignal == "abortSignal"

\* searchSerper({ q: query, num: 10 }, undefined)
searchSignal == "undefined"

\* bulkCrawlWebsites({ urls })
scrapeSignal == "undefined"

\* the call in flight was handed the signal of the request
signalReachesCall ==
    \/ pc = "searching" /\ searchSignal = RequestSignal
    \/ pc = "scraping" /\ scrapeSignal = RequestSignal

\* the request-handling layer aborts the request while the loop is suspended
Cancel ==
    /\ ~cancelled
    /\ pc \in {"choosing", "searching", "scraping", "answering"}
    /\ cancelled' = TRUE
    /\ IF signalReachesCall
       THEN /\ pc' = "failed"
            /\ failedCall' = pc
            /\ settled' = settled + 1
            /\ UNCHANGED <<ctxVars, streamVars, sinkVars, nextAction, isFinal,
                           result, hasSink, chooserCalls, searchCalls,
                           scrapeCalls, synthCalls, synthFinalCalls,
                           answerChosen, synthText, scrapeReplies, lastCrawl>>
       ELSE UNCHANGED <<ctxVars, loopVars>>
    /\ UNCHANGED <<callVars, pairVars, rateVars, routeVars, dbVars>>

CancelNext == Next \/ Cancel

CancelSpec == Init /\ [][CancelNext]_vars

(***************************************************************************)
(* Two invocations of runAgentLoop whose awaits interleave.                *)
(***************************************************************************)
\* getNextAction calls one invocation makes while two are interleaved.
MaxPairChoices == 2

\* the context and the locals of the invocation that is running
frame ==
    [step |-> step,
     queryHistory |-> queryHistory,
     scrapeHistory |-> scrapeHistory,
     pc |-> pc,
     nextAction |-> nextAction,
     isFinal |-> isFinal,
     result |-> result,
     hasSink |-> hasSink,
     nAnnotations |-> nAnnotations,
     lastAnnotation |-> lastAnnotation,
     annotatedAt |-> annotatedAt,
     settled |-> settled,
     fullText |-> fullText,
     chunksRead |-> chunksRead,
     streamDone |-> streamDone,
     chooserCalls |-> chooserCalls,
     searchCalls |-> searchCalls,
     scrapeCalls |-> scrapeCalls,
     synthCalls |-> synthCalls,
     synthFinalCalls |-> synthFinalCalls,
     answerChosen |-> answerChosen,
     synthText |-> synthText,
     failedCall |-> failedCall,
     scrapeReplies |-> scrapeReplies,
     lastCrawl |-> lastCrawl]

\* an invocation that has just been called: const ctx = new SystemContext()
NewFrame(sink) ==
    [step |-> 0,
     queryHistory |-> <<>>,
     scrapeHistory |-> <<>>,
     pc |-> "start",
     nextAction |-> NoAction,
     isFinal |-> FALSE,
     result |-> NoText,
     hasSink |-> sink,
     nAnnotations |-> 0,
     lastAnnotation |-> NoAction,
     annotatedAt |-> 0,
     settled |-> 0,
     fullText |-> <<>>,
     chunksRead |-> <<>>,
     streamDone |-> FALSE,
     chooserCalls |-> 0,
     searchCalls |-> 0,
     scrapeCalls |-> 0,
     synthCalls |-> 0,
     synthFinalCalls |-> 0,
     answerChosen |-> FALSE,
     synthText |-> NoText,
     failedCall |-> "none",
     scrapeReplies |-> 0,
     lastCrawl |-> NoAction]

\* faulty variant: one context at module level, used by every invocation
sharedContext(f) == <<step, queryHistory, scrapeHistory>>

\* the context an invocation works on is the one it constructed
ownContext(f) == <<f.step, f.queryHistory, f.scrapeHistory>>

\* the event loop continues invocation f
Resume(f) ==
    /\ step' = ownContext(f)[1]
    /\ queryHistory' = ownContext(f)[2]
    /\ scrapeHistory' = ownContext(f)[3]
    /\ pc' = f.pc
    /\ nextAction' = f.nextAction
    /\ isFinal' = f.isFinal
    /\ result' = f.result
    /\ hasSink' = f.hasSink
    /\ nAnnotations' = f.nAnnotations
    /\ lastAnnotation' = f.lastAnnotation
    /\ annotatedAt' = f.annotatedAt
    /\ settled' = f.settled
    /\ fullText' = f.fullText
    /\ chunksRead' = f.chunksRead
    /\ streamDone' = f.streamDone
    /\ chooserCalls' = f.chooserCalls
    /\ searchCalls' = f.searchCalls
    /\ scrapeCalls' = f.scrapeCalls
    /\ synthCalls' = f.synthCalls
    /\ synthFinalCalls' = f.synthFinalCalls
    /\ answerChosen' = f.answerChosen
    /\ synthText' = f.synthText
    /\ failedCall' = f.failedCall
    /\ scrapeReplies' = f.scrapeReplies
    /\ lastCrawl' = f.lastCrawl

\* one more step of the invocation that is running
PairStep == Next /\ chooserCalls' <= MaxPairChoices

\* runAgentLoop is called again while the first invocation is suspended
SecondCall ==
    /\ other = NoFrame
    /\ pc \in {"choosing", "searching", "scraping", "answering"}
    /\ \E sink \in BOOLEAN : Resume(NewFrame(sink))
    /\ other' = frame
    /\ active' = 2
    /\ UNCHANGED <<callVars, envVars, rateVars, routeVars, dbVars>>

\* the invocation that is running is suspended or over, the other one continues
Switch ==
    /\ other # NoFrame
    /\ pc # "start"
    /\ Resume(other)
    /\ other' = frame
    /\ active' = 3 - active
    /\ UNCHANGED <<callVars, envVars, rateVars, routeVars, dbVars>>

PairNext == PairStep \/ SecondCall \/ Switch

PairSpec == Init /\ [][PairNext]_vars

(***************************************************************************)
(* The rate limiter, as its test script uses it.                           *)
(***************************************************************************)
\* Last tick of the clock.
MaxNow == 5
\* recordRateLimit calls in one execution.
MaxRecords == 3
\* Length of a window in ticks (windowMs).
WindowTicks == 2

Configs ==
    [maxRequests : {1, 2}, maxRetries : {3}, windowMs : {WindowTicks},
     keyPrefix : {"test"}]

\* the window a time falls into
windowOf(cfg, t) == t \div cfg.windowMs

\* faulty variant: a counter that is never reset
hitsEver(w) == hits

\* the counter of window w; the counter of an earlier window has expired
hitsIn(w) == IF hitsWindow = w THEN hits ELSE 0

\* the script builds its configuration
Configure ==
    /\ config = NoConfig
    /\ config' \in Configs
    /\ UNCHANGED <<now, hits, hitsWindow, rateResult, recordedAt>>
    /\ UNCHANGED <<ctxVars, loopVars, callVars, envVars, pairVars, routeVars, dbVars>>

\* await checkRateLimit(config); at and seen note when the call was made
CheckRateLimit ==
    /\ config # NoConfig
    /\ LET w == windowOf(config, now)
           n == hitsIn(w)
       IN rateResult' = [at |-> now, seen |-> Len(recordedAt),
                         allowed |-> n < config.maxRequests,
                         remaining |-> IF n < config.maxRequests
                                       THEN config.maxRequests - n ELSE 0,
                         totalHits |-> n,
                         resetTime |-> (w + 1) * config.windowMs]
    /\ UNCHANGED <<config, now, hits, hitsWindow, recordedAt>>
    /\ UNCHANGED <<ctxVars, loopVars, callVars, envVars, pairVars, routeVars, dbVars>>

\* await recordRateLimit(config)
RecordRateLimit ==
    /\ config # NoConfig
    /\ Len(recordedAt) < MaxRecords
    /\ hits' = hitsIn(windowOf(config, now)) + 1
    /\ hitsWindow' = windowOf(config, now)
    /\ recordedAt' = Append(recordedAt, now)
    /\ UNCHANGED <<config, now, rateResult>>
    /\ UNCHANGED <<ctxVars, loopVars, callVars, envVars, pairVars, routeVars, dbVars>>

\* await result.retry(): wait for the reset time of a blocked check
Retry ==
    /\ rateResult # NoResult
    /\ ~rateResult.allowed
    /\ now < rateResult.resetTime
    /\ rateResult.resetTime <= MaxNow
    /\ now' = rateResult.resetTime
    /\ UNCHANGED <<config, hits, hitsWindow, rateResult, recordedAt>>
    /\ UNCHANGED <<ctxVars, loopVars, callVars, envVars, pairVars, routeVars, dbVars>>

\* time passes between two calls
Tick ==
    /\ now < MaxNow
    /\ now' = now + 1
    /\ UNCHANGED <<config, hits, hitsWindow, rateResult, recordedAt>>
    /\ UNCHANGED <<ctxVars, loopVars, callVars, envVars, pairVars, routeVars, dbVars>>

RateNext ==
    \/ Configure
    \/ CheckRateLimit
    \/ RecordRateLimit
    \/ Retry
    \/ Tick

RateSpec == Init /\ [][RateNext]_vars

(***************************************************************************)
(* The chat route: POST, one step per await, and its stream handler.       *)
(***************************************************************************)
\* Annotations runAgentLoop hands to the route's callback in one request.
MaxAnnotations == 2

U1 == [id |-> "m1", role |-> "user", content |-> "q1"]
A1 == [id |-> "m2", role |-> "assistant", content |-> "a1"]
U2 == [id |-> "m3", role |-> "user", content |-> "q2"]
Bodies == {<<>>, <<U1>>, <<U1, A1, U2>>}

\* what the chats table may hold for chat c1 when the request arrives
StoredChats ==
    {NoChat,
     [userId |-> "u1", title |-> <<"q1", "...">>, messages |-> <<U1, A1>>],
     [userId |-> "u2", title |-> <<"q0", "...">>, messages |-> <<>>]}

\* content.slice(0, 50) + "..."
titleOf(msgs) == <<msgs[Len(msgs)].content, "...">>

\* upsertChat: the chat of that id and user gets the messages, or is created
upsertChat(table, opts) ==
    [table EXCEPT ![opts.chatId] =
        [userId |-> opts.userId, title |-> opts.title, messages |-> opts.messages]]

off == <<ctxVars, loopVars, callVars, envVars, pairVars, rateVars, dbVars>>

\* a request arrives: await auth()
POST ==
    /\ rpc = "idle"
    /\ \E session \in {NoSession, "u1"}, messages \in Bodies,
          chatId \in {NoChatId, "c1"}, stored \in StoredChats :
        /\ request' = [session |-> session, messages |-> messages, chatId |-> chatId]
        /\ chats' = [chats EXCEPT !["c1"] = stored]
    /\ rpc' = "auth"
    /\ UNCHANGED <<response, currentChatId, dataStream, upserts, agentFailed, off>>

\* return new Response(...)
Respond(status) ==
    /\ response' = [status |-> status]
    /\ rpc' = "responded"

\* auth resolves: without a session the request is refused
AuthResolves ==
    /\ rpc = "auth"
    /\ IF request.session = NoSession THEN Respond(401)
       ELSE rpc' = "json" /\ UNCHANGED response
    /\ UNCHANGED <<request, currentChatId, dataStream, upserts, chats,
                   agentFailed, off>>

\* request.json resolves: no messages, a new chat, or a chat to look up
JsonResolves ==
    /\ rpc = "json"
    /\ IF Len(request.messages) = 0
       THEN Respond(400) /\ UNCHANGED currentChatId
       ELSE /\ UNCHANGED response
            /\ IF request.chatId = NoChatId
               THEN rpc' = "upsertNew" /\ currentChatId' = "new"
               ELSE rpc' = "findFirst" /\ currentChatId' = request.chatId
    /\ UNCHANGED <<request, dataStream, upserts, chats, agentFailed, off>>

\* createDataStreamResponse: execute runs up to its await of runAgentLoop
Execute ==
    /\ response' = [status |-> 200]
    /\ dataStream' = IF request.chatId = NoChatId
                     THEN Append(dataStream,
                                 [type |-> "NEW_CHAT_CREATED", chatId |-> currentChatId])
                     ELSE dataStream
    /\ rpc' = "agent"

\* the upsertChat call for a new chat resolves
UpsertNewResolves ==
    /\ rpc = "upsertNew"
    /\ LET opts == [userId |-> request.session, chatId |-> currentChatId,
                    title |-> titleOf(request.messages),
                    messages |-> request.messages]
       IN /\ chats' = upsertChat(chats, opts)
          /\ upserts' = Append(upserts, opts)
    /\ Execute
    /\ UNCHANGED <<request, currentChatId, agentFailed, off>>

\* an awaited database call of POST rejects: POST rejects
DbRejects ==
    /\ rpc \in {"upsertNew", "findFirst"}
    /\ Respond(500)
    /\ UNCHANGED <<request, currentChatId, dataStream, upserts, chats,
                   agentFailed, off>>

\* findFirst resolves: the chat must exist and belong to the user
FindFirstResolves ==
    /\ rpc = "findFirst"
    /\ LET chat == chats[currentChatId]
       IN IF chat = NoChat \/ chat.userId # request.session
          THEN Respond(404) /\ UNCHANGED dataStream
          ELSE Execute
    /\ UNCHANGED <<request, currentChatId, upserts, chats, agentFailed, off>>

\* runAgentLoop calls the annotation callback
AgentAnnotates ==
    /\ rpc = "agent"
    /\ Len(SelectSeq(dataStream, LAMBDA part : part.type = "annotation"))
          < MaxAnnotations
    /\ dataStream' = Append(dataStream, [type |-> "annotation"])
    /\ UNCHANGED <<rpc, request, response, currentChatId, upserts, chats,
                   agentFailed, off>>

\* faulty variant: the catch block also stores an assistant message
CatchAndSave ==
    /\ dataStream' = Append(dataStream, [type |-> "text", prompt |-> "apology"])
    /\ rpc' = "closed"
    /\ LET opts == [userId |-> request.session, chatId |-> currentChatId,
                    title |-> titleOf(request.messages),
                    messages |-> Append(request.messages,
                                        [id |-> "m9", role |-> "assistant",
                                         content |-> "apology"])]
       IN /\ chats' = upsertChat(chats, opts)
          /\ upserts' = Append(upserts, opts)

\* the catch block: a stream generated from the apology prompt is merged
Catch ==
    /\ dataStream' = Append(dataStream, [type |-> "text", prompt |-> "apology"])
    /\ rpc' = "closed"
    /\ UNCHANGED <<upserts, chats>>

\* runAgentLoop resolves: its result is streamed, then streamResult.text awaited
AgentResolves ==
    /\ rpc = "agent"
    /\ dataStream' = Append(dataStream, [type |-> "text", prompt |-> "result"])
    /\ rpc' = "text"
    /\ UNCHANGED <<request, response, currentChatId, upserts, chats,
                   agentFailed, off>>

\* runAgentLoop rejects
AgentRejects ==
    /\ rpc = "agent"
    /\ agentFailed' = TRUE
    /\ Catch
    /\ UNCHANGED <<request, response, currentChatId, off>>

\* streamResult.text resolves: the chat is saved with the assistant message
TextResolves ==
    /\ rpc = "text"
    /\ rpc' = "upsertFinal"
    /\ UNCHANGED <<request, response, currentChatId, dataStream, upserts,
                   chats, agentFailed, off>>

\* that upsertChat call resolves
UpsertFinalResolves ==
    /\ rpc = "upsertFinal"
    /\ LET opts == [userId |-> request.session, chatId |-> currentChatId,
                    title |-> titleOf(request.messages),
                    messages |-> Append(request.messages,
                                        [id |-> "m9", role |-> "assistant",
                                         content |-> "result"])]
       IN /\ chats' = upsertChat(chats, opts)
          /\ upserts' = Append(upserts, opts)
    /\ rpc' = "flush"
    /\ UNCHANGED <<request, response, currentChatId, dataStream, agentFailed, off>>

\* langfuse.flushAsync resolves: execute is over
FlushResolves ==
    /\ rpc = "flush"
    /\ rpc' = "closed"
    /\ UNCHANGED <<request, response, currentChatId, dataStream, upserts,
                   chats, agentFailed, off>>

\* an await of the try block after runAgentLoop rejects
LaterAwaitRejects ==
    /\ rpc \in {"text", "upsertFinal", "flush"}
    /\ Catch
    /\ UNCHANGED <<request, response, currentChatId, agentFailed, off>>

RouteNext ==
    \/ POST
    \/ AuthResolves
    \/ JsonResolves
    \/ UpsertNewResolves
    \/ DbRejects
    \/ FindFirstResolves
    \/ AgentAnnotates
    \/ AgentResolves
    \/ AgentRejects
    \/ TextResolves
    \/ UpsertFinalResolves
    \/ FlushResolves
    \/ LaterAwaitRejects

RouteSpec == Init /\ [][RouteNext]_vars

(***************************************************************************)
(* The daily request limit: chat requests of one user, handled at once.    *)
(***************************************************************************)
DAILY_REQUEST_LIMIT == 100

\* everything but the tables and handlers of the database layer
offDb == <<ctxVars, loopVars, callVars, envVars, pairVars, rateVars, routeVars>>

\* getUserRequestCountToday: the user's rows created since midnight
getUserRequestCountToday == userRequests

\* checkRateLimit, after isUserAdmin resolved with false
checkRateLimit(requestCount) ==
    [allowed |-> requestCount < DAILY_REQUEST_LIMIT,
     remaining |-> IF DAILY_REQUEST_LIMIT - requestCount > 0
                   THEN DAILY_REQUEST_LIMIT - requestCount ELSE 0,
     limit |-> DAILY_REQUEST_LIMIT]

\* a request arrives and auth resolves: without a user it is refused
Arrive(h) ==
    /\ handlers[h].pc = "idle"
    /\ \E session \in {NoSession, "u1"} :
        handlers' = [handlers EXCEPT ![h] =
            IF session = NoSession
            THEN [pc |-> "responded", status |-> 401]
            ELSE [pc |-> "isUserAdmin", status |-> 0]]
    /\ UNCHANGED <<userRequests, isAdmin, upsertVars, offDb>>

\* checkRateLimit: isUserAdmin resolves; an admin is allowed without a count
AdminResolves(h) ==
    /\ handlers[h].pc = "isUserAdmin"
    /\ handlers' = [handlers EXCEPT ![h].pc = IF isAdmin THEN "json" ELSE "count"]
    /\ UNCHANGED <<userRequests, isAdmin, upsertVars, offDb>>

\* faulty variant: the request is recorded before the limit is tested
CountResolvesRecording(h) ==
    /\ handlers[h].pc = "count"
    /\ userRequests < MaxRows
    /\ userRequests' = userRequests + 1
    /\ handlers' = [handlers EXCEPT ![h] =
            IF checkRateLimit(getUserRequestCountToday).allowed
            THEN [pc |-> "json", status |-> 0]
            ELSE [pc |-> "responded", status |-> 429]]
    /\ UNCHANGED <<isAdmin, upsertVars, offDb>>

\* checkRateLimit: getUserRequestCountToday resolves; POST tests allowed
CountResolves(h) ==
    /\ handlers[h].pc = "count"
    /\ handlers' = [handlers EXCEPT ![h] =
            IF checkRateLimit(getUserRequestCountToday).allowed
            THEN [pc |-> "json", status |-> 0]
            ELSE [pc |-> "responded", status |-> 429]]
    /\ UNCHANGED userRequests
    /\ UNCHANGED <<isAdmin, upsertVars, offDb>>

\* the body is read and the chat saved; the stream response is returned
StreamStarts(h) ==
    /\ handlers[h].pc = "json"
    /\ handlers' = [handlers EXCEPT ![h] = [pc |-> "execute", status |-> 200]]
    /\ UNCHANGED <<userRequests, isAdmin, upsertVars, offDb>>

\* execute: await addUserRequest
AddUserRequest(h) ==
    /\ handlers[h].pc = "execute"
    /\ userRequests < MaxRows
    /\ userRequests' = userRequests + 1
    /\ handlers' = [handlers EXCEPT ![h].pc = "responded"]
    /\ UNCHANGED <<isAdmin, upsertVars, offDb>>

\* the request is over
Leave(h) ==
    /\ handlers[h].pc = "responded"
    /\ handlers' = [handlers EXCEPT ![h] = Idle]
    /\ UNCHANGED <<userRequests, isAdmin, upsertVars, offDb>>

\* the user is made an admin
GrantAdmin ==
    /\ ~isAdmin
    /\ isAdmin' = TRUE
    /\ UNCHANGED <<userRequests, handlers, upsertVars, offDb>>

LimitNext ==
    \/ \E h \in Handlers :
        \/ Arrive(h)
        \/ AdminResolves(h)
        \/ CountResolves(h)
        \/ StreamStarts(h)
        \/ AddUserRequest(h)
        \/ Leave(h)
    \/ GrantAdmin

LimitSpec == Init /\ [][LimitNext]_vars

(***************************************************************************)
(* Both routes up to the point where a request is refused or accepted.     *)
(***************************************************************************)
\* POST of the later route, until it has returned its Response
PostStep == RouteNext /\ rpc' \in {"auth", "json", "upsertNew", "findFirst",
                                   "responded", "agent"}

\* the rate-limited route, its requests arriving one after the other
LimitedStep == LimitNext /\ Cardinality({h \in Handlers : handlers'[h] # Idle}) <= 1

GateNext == PostStep \/ LimitedStep

GateSpec == Init /\ [][GateNext]_vars

(***************************************************************************)
(* upsertChat, one step per awaited statement; two calls may overlap.       *)
(***************************************************************************)
M1 == [id |-> "m1", role |-> "user"]
M2 == [id |-> "m2", role |-> "assistant"]
M3 == [id |-> "m3", role |-> "user"]
MessageLists == {<<>>, <<M1>>, <<M1, M2>>, <<M3>>}

\* the arguments of a call: the user comes from the session, the rest from the body
UpsertOpts ==
    {[userId |-> u, chatId |-> "c1", title |-> <<"title", u>>, messages |-> l] :
        u \in {"u1", "u2"}, l \in MessageLists}

\* messageValues: the rows made of a message list
messageValues(chatId, messageList) ==
    {[id |-> messageList[i].id, chatId |-> chatId,
      role |-> messageList[i].role, order |-> i - 1] : i \in 1..Len(messageList)}

\* faulty variant: the chat is looked up by its id alone
existingChatOfAnyone(opts) == chatTable[opts.chatId] # NoChat

\* existingChat.length > 0: a chat of that id that belongs to the user
existingChat(opts) ==
    /\ chatTable[opts.chatId] # NoChat
    /\ chatTable[opts.chatId].userId = opts.userId

\* chats.id is the primary key: a second row of that id is refused
chatIdTaken(chatId) == chatTable[chatId] # NoChat

\* messages.id is the primary key
messageIdTaken(rows) == \E r \in rows, m \in msgTable : r.id = m.id

\* what follows the branch: the insert of the messages, or the return
afterBranch(opts) == IF Len(opts.messages) > 0 THEN "insertMessages" ELSE "done"

\* upsertChat is called, after an earlier call has settled: the select is awaited
UpsertCall(c) ==
    /\ calls[c].pc \in {"idle", "done", "failed"}
    /\ \E opts \in UpsertOpts :
        /\ Cardinality(upsertLog \cup {opts}) <= MaxUpserts
        /\ calls' = [calls EXCEPT ![c] = [pc |-> "select", opts |-> opts]]
        /\ upsertLog' = upsertLog \cup {opts}
    /\ UNCHANGED <<chatTable, msgTable, limitVars, offDb>>

\* the select resolves: delete the messages, or insert the chat
SelectResolves(c) ==
    /\ calls[c].pc = "select"
    /\ calls' = [calls EXCEPT ![c].pc =
                    IF existingChat(calls[c].opts) THEN "delete" ELSE "insertChat"]
    /\ UNCHANGED <<chatTable, msgTable, upsertLog, limitVars, offDb>>

\* db.delete(messages).where(eq(messages.chatId, chatId)) resolves
DeleteResolves(c) ==
    /\ calls[c].pc = "delete"
    /\ msgTable' = {m \in msgTable : m.chatId # calls[c].opts.chatId}
    /\ calls' = [calls EXCEPT ![c].pc = "update"]
    /\ UNCHANGED <<chatTable, upsertLog, limitVars, offDb>>

\* db.update(chats).set({ title }).where(eq(chats.id, chatId)) resolves
UpdateResolves(c) ==
    /\ calls[c].pc = "update"
    /\ chatTable' = [chatTable EXCEPT ![calls[c].opts.chatId] =
                        IF @ = NoChat THEN @
                        ELSE [@ EXCEPT !.title = calls[c].opts.title]]
    /\ calls' = [calls EXCEPT ![c].pc = afterBranch(calls[c].opts)]
    /\ UNCHANGED <<msgTable, upsertLog, limitVars, offDb>>

\* db.insert(chats) resolves, or rejects because the id is taken
InsertChatSettles(c) ==
    /\ calls[c].pc = "insertChat"
    /\ LET opts == calls[c].opts
       IN IF chatIdTaken(opts.chatId)
          THEN /\ calls' = [calls EXCEPT ![c].pc = "failed"]
               /\ UNCHANGED chatTable
          ELSE /\ chatTable' = [chatTable EXCEPT ![opts.chatId] =
                                   [userId |-> opts.userId, title |-> opts.title]]
               /\ calls' = [calls EXCEPT ![c].pc = afterBranch(opts)]
    /\ UNCHANGED <<msgTable, upsertLog, limitVars, offDb>>

\* db.insert(messages) resolves, or rejects because an id is taken
InsertMessagesSettles(c) ==
    /\ calls[c].pc = "insertMessages"
    /\ LET rows == messageValues(calls[c].opts.chatId, calls[c].opts.messages)
       IN IF messageIdTaken(rows)
          THEN /\ calls' = [calls EXCEPT ![c].pc = "failed"]
               /\ UNCHANGED msgTable
          ELSE /\ msgTable' = msgTable \cup rows
               /\ calls' = [calls EXCEPT ![c].pc = "done"]
    /\ UNCHANGED <<chatTable, upsertLog, limitVars, offDb>>

UpsertNext ==
    \E c \in Callers :
        \/ UpsertCall(c)
        \/ SelectResolves(c)
        \/ DeleteResolves(c)
        \/ UpdateResolves(c)
        \/ InsertChatSettles(c)
        \/ InsertMessagesSettles(c)

UpsertSpec == Init /\ [][UpsertNext]_vars

(***************************************************************************)
(* A SystemContext driven by direct calls of its methods, in any order.    *)
(***************************************************************************)
QX == [query |-> "X", results |-> <<>>]
QY == [query |-> "Y",
       results |-> <<[date |-> "", title |-> "T2", url |-> "L2", snippet |-> "S2"]>>]
QueryBatches == {<<>>, <<QX>>, <<QY, QX>>}

SA == [url |-> "a", result |-> "page"]
SB == [url |-> "b", result |-> "page"]
ScrapeBatches == {<<>>, <<SA>>, <<SB, SA>>}

CallShouldStop ==
    /\ lastOp' = "shouldStop"
    /\ ret' = shouldStop(step)
    /\ UNCHANGED <<reportedQueries, reportedScrapes>>
    /\ UNCHANGED <<ctxVars, loopVars, restVars>>

CallIncrementStep ==
    /\ step < MaxCtxStep
    /\ step' = incrementStep(step)
    /\ lastOp' = "incrementStep"
    /\ ret' = None
    /\ UNCHANGED <<reportedQueries, reportedScrapes>>
    /\ UNCHANGED <<queryHistory, scrapeHistory, loopVars, restVars>>

CallGetStep ==
    /\ lastOp' = "getStep"
    /\ ret' = getStep(step)
    /\ UNCHANGED <<reportedQueries, reportedScrapes>>
    /\ UNCHANGED <<ctxVars, loopVars, restVars>>

CallReportQueries ==
    /\ \E queries \in QueryBatches :
        /\ Len(queryHistory) + Len(queries) <= MaxCtxRecords
        /\ queryHistory' = reportQueries(queryHistory, queries)
        /\ reportedQueries' = Append(reportedQueries, queries)
    /\ Len(reportedQueries) < MaxCtxBatches
    /\ lastOp' = "reportQueries"
    /\ ret' = None
    /\ UNCHANGED reportedScrapes
    /\ UNCHANGED <<step, scrapeHistory, loopVars, restVars>>

CallReportScrapes ==
    /\ \E scrapes \in ScrapeBatches :
        /\ Len(scrapeHistory) + Len(scrapes) <= MaxCtxRecords
        /\ scrapeHistory' = reportScrapes(scrapeHistory, scrapes)
        /\ reportedScrapes' = Append(reportedScrapes, scrapes)
    /\ Len(reportedScrapes) < MaxCtxBatches
    /\ lastOp' = "reportScrapes"
    /\ ret' = None
    /\ UNCHANGED reportedQueries
    /\ UNCHANGED <<step, queryHistory, loopVars, restVars>>

CallGetQueryHistory ==
    /\ lastOp' = "getQueryHistory"
    /\ ret' = getQueryHistory(queryHistory)
    /\ UNCHANGED <<reportedQueries, reportedScrapes>>
    /\ UNCHANGED <<ctxVars, loopVars, restVars>>

CallGetScrapeHistory ==
    /\ lastOp' = "getScrapeHistory"
    /\ ret' = getScrapeHistory(scrapeHistory)
    /\ UNCHANGED <<reportedQueries, reportedScrapes>>
    /\ UNCHANGED <<ctxVars, loopVars, restVars>>

CtxNext ==
    \/ CallShouldStop
    \/ CallIncrementStep
    \/ CallGetStep
    \/ CallReportQueries
    \/ CallReportScrapes
    \/ CallGetQueryHistory
    \/ CallGetScrapeHistory

CtxSpec == Init /\ [][CtxNext]_vars

(***************************************************************************)
(* Properties.                                                             *)
(***************************************************************************)
StepBudget == 10

synthStarted == synthCalls + synthFinalCalls

\* C1: the Action Chooser is invoked at most 10 times in one execution, and
\* a forced (best-effort) answer is reached with exactly 10 invocations.
ChooserAtMostTen ==
    /\ chooserCalls <= StepBudget
    /\ synthFinalCalls > 0 => chooserCalls = StepBudget
ChooserCalledTenTimes ==
    pc = "answering" /\ isFinal /\ chooserCalls = StepBudget /\ scrapeCalls = 1

\* C2: once the chooser has returned an answer action, at whatever step, no
\* chooser, search or scrape call follows: the one remaining call is a single
\* answerQuestion call with isFinal = false, and the loop returns its text.
AnswerActionEndsLoop ==
    answerChosen =>
        /\ nextAction.type = "answer"
        /\ pc \in {"answering", "done", "failed"}
        /\ synthCalls = 1 /\ synthFinalCalls = 0 /\ isFinal = FALSE
        /\ chooserCalls = step + 1
        /\ searchCalls + scrapeCalls = step
        /\ pc = "failed" => failedCall = "answering"
        /\ pc = "done" => result = synthText
AnswerChosenAtLastStep ==
    answerChosen /\ pc = "done" /\ step = StepBudget - 1 /\ synthCalls = 1

\* C3: when 10 iterations completed without an answer action the loop makes
\* exactly one answerQuestion call, with isFinal = true, and isFinal = true
\* is used in no other situation.
BestEffortOnlyAtBudget ==
    /\ step >= StepBudget =>
        /\ step = StepBudget
        /\ ~answerChosen
        /\ pc \in {"answering", "done", "failed"}
        /\ synthFinalCalls = 1 /\ synthCalls = 0 /\ isFinal = TRUE
    /\ synthFinalCalls > 0 =>
        /\ step = StepBudget /\ ~answerChosen /\ chooserCalls = StepBudget
        /\ searchCalls + scrapeCalls = StepBudget
    /\ (pc = "done" /\ ~answerChosen) => (synthFinalCalls = 1 /\ step = StepBudget)
BestEffortAnswerReturned ==
    pc = "done" /\ step = StepBudget /\ synthFinalCalls = 1 /\ ~answerChosen

\* C4: if no collaborator call fails and each one settles, the loop reaches
\* its terminal state, after at most 10 chooser iterations and exactly one
\* answerQuestion call.
Terminates ==
    <>(\/ pc = "failed"
       \/ /\ pc = "done"
          /\ chooserCalls <= StepBudget
          /\ step <= StepBudget
          /\ synthStarted = 1)
StoppedAfterTenIterations ==
    pc = "done" /\ chooserCalls = StepBudget /\ synthStarted = 1

\* C5: shouldStop() returns true exactly when the step counter is >= 10.
ShouldStopIffBudgetSpent ==
    lastOp = "shouldStop" => (ret = TRUE <=> step >= StepBudget)
ShouldStopPastBudget ==
    lastOp = "shouldStop" /\ ret = TRUE /\ step > StepBudget

\* C6: every step of the loop leaves the rendered query history and the
\* rendered scrape history of before as a prefix of the rendered history after.
RenderedHistoriesGrowByAppending ==
    [][/\ IsPrefix(getQueryHistory(queryHistory), getQueryHistory(queryHistory'))
       /\ IsPrefix(getScrapeHistory(scrapeHistory), getScrapeHistory(scrapeHistory'))
      ]_vars
HistoriesHoldSeveralRecords ==
    /\ Len(queryHistory) >= 3
    /\ queryHistory[1] # queryHistory[2]
    /\ scrapeReplies = 2
    /\ Len(scrapeHistory) >= 3
    /\ scrapeHistory[1] # scrapeHistory[2]
    /\ pc = "choosing"

crawlSucceeded(r) == r.result.success
crawlRecord(r) == [url |-> r.url, result |-> r.result.data]
\* the records of the URLs of a crawl response that were fetched
fetched(crawl) ==
    [i \in 1..Len(SelectSeq(crawl.results, crawlSucceeded)) |->
        crawlRecord(SelectSeq(crawl.results, crawlSucceeded)[i])]

\* C7: when the scrape collaborator returns, the scrape history grows by
\* exactly the records of the URLs fetched with success, in result order,
\* no error is raised and the loop moves to its next step, whatever the
\* aggregate success flag says.
ScrapeAppendsFetchedOnly ==
    [][scrapeReplies' # scrapeReplies =>
        /\ scrapeHistory' = scrapeHistory \o fetched(lastCrawl')
        /\ step' = step + 1
        /\ pc' \in {"choosing", "answering"}
        /\ failedCall' = "none"
      ]_vars
OneFetchedOneDropped ==
    /\ scrapeReplies = 1
    /\ ~lastCrawl.success
    /\ lastCrawl.results[1].result.success
    /\ ~lastCrawl.results[2].result.success
    /\ scrapeHistory = <<[url |-> "a", result |-> "page"]>>
    /\ pc = "choosing"

\* C8: an answer action on the first iteration means no search call, no
\* scrape call, one answerQuestion call with isFinal = false, and the text of
\* that call as the value of runAgentLoop.
AnswerOnFirstIteration ==
    (answerChosen /\ chooserCalls = 1) =>
        /\ searchCalls = 0 /\ scrapeCalls = 0
        /\ queryHistory = <<>> /\ scrapeHistory = <<>>
        /\ synthCalls = 1 /\ synthFinalCalls = 0 /\ isFinal = FALSE
        /\ pc = "done" => result = synthText
FirstAnswerReturned ==
    /\ pc = "done" /\ answerChosen /\ chooserCalls = 1
    /\ result = <<"w1", "w2", "w3">>

\* C9: when every iteration chose a search, answerQuestion starts only after
\* 10 searches have been made and reported, it is called once, with
\* isFinal = true, and no scrape call is made.
SearchOnlyRun ==
    (~answerChosen /\ scrapeCalls = 0 /\ (synthStarted > 0 \/ pc = "done")) =>
        /\ searchCalls = StepBudget
        /\ Len(queryHistory) = StepBudget
        /\ step = StepBudget
        /\ synthFinalCalls = 1 /\ synthCalls = 0
TenSearchesThenAnswer ==
    /\ pc = "done" /\ scrapeCalls = 0 /\ ~answerChosen
    /\ searchCalls = StepBudget /\ synthFinalCalls = 1

completedActions ==
    searchCalls + scrapeCalls
        - (IF failedCall \in {"searching", "scraping"} THEN 1 ELSE 0)

\* C10: a failed collaborator call ends the loop: no value is returned, the
\* call is not made again, no call follows it (no answer synthesis unless it
\* is the call that failed), and the step counter counts only the iterations
\* that completed.
FailureEndsLoop ==
    pc = "failed" =>
        /\ failedCall \in {"choosing", "searching", "scraping", "answering"}
        /\ result = NoText
        /\ step = completedActions
        /\ Len(queryHistory) + scrapeReplies = step
        /\ chooserCalls = IF failedCall = "answering" /\ isFinal THEN step ELSE step + 1
        /\ synthStarted = IF failedCall = "answering" THEN 1 ELSE 0
SearchFailedMidRun ==
    pc = "failed" /\ failedCall = "searching" /\ step = 3 /\ searchCalls = 4

chooserReturned ==
    chooserCalls - (IF pc = "choosing" \/ failedCall = "choosing" THEN 1 ELSE 0)

\* C11: a supplied annotation sink is invoked once per iteration, with the
\* action chosen in it (answer included), after the chooser returned and
\* before the call of that action starts: the k-th annotation is delivered
\* when k - 1 search, scrape and answer calls have started, and there are as
\* many annotations as chooser calls that returned.
AnnotationPerIteration ==
    /\ ~hasSink => nAnnotations = 0
    /\ hasSink =>
        /\ nAnnotations = chooserReturned
        /\ nAnnotations > 0 =>
            /\ lastAnnotation = [type |-> "NEW_ACTION", action |-> nextAction]
            /\ annotatedAt = nAnnotations - 1
AnswerAnnotatedThird ==
    /\ hasSink /\ nAnnotations = 3 /\ pc = "done"
    /\ lastAnnotation.action.type = "answer"

callsInFlight == chooserCalls + callsStarted - settled

\* C12: at most one collaborator call is in flight, and a chooser call is in
\* flight only when the results of every earlier iteration have been
\* reported and the step counter has been incremented for it.
OneCallAtATime ==
    /\ callsInFlight \in {0, 1}
    /\ callsInFlight = 1 <=> pc \in {"choosing", "searching", "scraping", "answering"}
    /\ pc = "choosing" =>
        /\ step = chooserCalls - 1
        /\ searchCalls + scrapeCalls = step
        /\ Len(queryHistory) = searchCalls
        /\ scrapeReplies = scrapeCalls
FifthChooserCall ==
    pc = "choosing" /\ chooserCalls = 5 /\ searchCalls = 3 /\ scrapeCalls = 1

\* C13: once the request-handling layer has signalled cancellation, no search
\* or scrape call of the loop is left in flight: the signal reaches the call
\* and aborts it.
CancellationAbortsCall ==
    cancelled => pc \notin {"searching", "scraping"}

\* C14: a search call in flight was given a query string, and a scrape call
\* in flight a non-empty list of URLs.
CallsCarryPayload ==
    /\ pc = "searching" => "query" \in DOMAIN nextAction
    /\ pc = "scraping" =>
        /\ "urls" \in DOMAIN nextAction
        /\ Len(nextAction.urls) > 0

\* C15: the step counter starts at 0; a call of incrementStep raises it by
\* exactly 1, also past 10, and no other method changes it.
StepMovesOnlyByIncrement ==
    /\ step = 0
    /\ [][IF lastOp' = "incrementStep" THEN step' = step + 1
                                       ELSE step' = step]_vars

StepCountedPastBudget == lastOp = "incrementStep" /\ step = 11

\* the second field of the tokens of a rendered text that start with mark
headed(text, mark) ==
    LET heads == SelectSeq(text, LAMBDA token : token[1] = mark)
    IN [i \in 1..Len(heads) |-> heads[i][2]]

AnswerIsTheWholeStream ==
    /\ result # NoText => pc = "done" /\ streamDone
    /\ pc = "done" => result = Concat(chunksRead) /\ synthText = result
    /\ pc = "failed" => result = NoText /\ synthText = NoText

ThreeChunksReturned ==
    /\ pc = "done"
    /\ chunksRead = << <<"w1", "w2">>, <<>>, <<"w3">> >>
    /\ result = <<"w1", "w2", "w3">>

\* the search and scrape calls of invocation f that have returned
returnedCalls(f) ==
    f.searchCalls + f.scrapeCalls
        - (IF f.pc \in {"searching", "scraping"}
              \/ f.failedCall \in {"searching", "scraping"} THEN 1 ELSE 0)

\* step and histories of invocation f are the work of f alone
ownWork(f) ==
    /\ f.step = returnedCalls(f)
    /\ Len(f.queryHistory) + f.scrapeReplies = returnedCalls(f)
    /\ f.pc = "start" => f.queryHistory = <<>> /\ f.scrapeHistory = <<>>

\* C18: each invocation works on a context of its own: its step and
\* histories reflect its own calls only, a step of one invocation leaves the
\* other's context as it was, and an invocation continues with the context
\* it was suspended with.
InvocationsKeepTheirContext ==
    /\ [](ownWork(frame) /\ (other # NoFrame => ownWork(other)))
    /\ [][/\ active' = active => other' = other
          /\ active' # active /\ other # NoFrame =>
                /\ step' = other.step
                /\ queryHistory' = other.queryHistory
                /\ scrapeHistory' = other.scrapeHistory]_vars

BothInvocationsMidRun ==
    /\ active = 1
    /\ pc = "choosing" /\ step = 1 /\ Len(queryHistory) = 1
    /\ other.pc = "searching" /\ other.step = 1
    /\ other.queryHistory = <<>> /\ Len(other.scrapeHistory) = 1

\* the recordRateLimit calls made before a check, in the window of the check
recordedBefore(check) ==
    Cardinality({i \in 1..check.seen :
                    windowOf(config, recordedAt[i]) = windowOf(config, check.at)})

\* C19: a check is allowed exactly when fewer than maxRequests requests were
\* recorded in its window before it: allowed in a fresh window, refused once
\* maxRequests are recorded, and its reset time is the start of the next
\* window, from which a request is allowed again.
AllowedUntilWindowIsFull ==
    rateResult # NoResult =>
        /\ rateResult.allowed <=> recordedBefore(rateResult) < config.maxRequests
        /\ rateResult.totalHits = recordedBefore(rateResult)
        /\ rateResult.resetTime > rateResult.at
        /\ windowOf(config, rateResult.resetTime)
              = windowOf(config, rateResult.at) + 1
        /\ windowOf(config, rateResult.resetTime - 1)
              = windowOf(config, rateResult.at)

AllowedAgainAfterReset ==
    /\ config # NoConfig /\ config.maxRequests = 2
    /\ recordedAt = <<0, 1>>
    /\ now = WindowTicks
    /\ rateResult # NoResult
    /\ rateResult.at = now /\ rateResult.allowed

\* the upsertChat calls that stored a message of the assistant
assistantSaves ==
    SelectSeq(upserts, LAMBDA opts :
        \E i \in 1..Len(opts.messages) :
            /\ opts.messages[i].role = "assistant"
            /\ opts.messages[i] \notin {request.messages[j] :
                                          j \in 1..Len(request.messages)})

\* C20: once runAgentLoop has rejected, the data stream carries the apology
\* stream and no answer, no assistant message of this request was stored,
\* and upsertChat is not called any more.
AgentFailureIsReportedNotSaved ==
    /\ [](agentFailed =>
            /\ \E i \in 1..Len(dataStream) :
                  dataStream[i] = [type |-> "text", prompt |-> "apology"]
            /\ \A i \in 1..Len(dataStream) :
                  dataStream[i] # [type |-> "text", prompt |-> "result"]
            /\ assistantSaves = <<>>)
    /\ [][agentFailed' => upserts' = upserts /\ chats' = chats]_vars

NewChatAgentFailed ==
    /\ agentFailed
    /\ rpc = "closed"
    /\ request.chatId = NoChatId
    /\ Len(upserts) = 1
    /\ Len(dataStream) = 3
    /\ dataStream[1].type = "NEW_CHAT_CREATED"
    /\ dataStream[2].type = "annotation"

\* C21: the step counter stays within 0..10 and equals the number of search
\* and scrape calls that have returned in this execution; choosing the answer
\* and producing it leave the counter as it is.
StepCountsReturnedCalls ==
    /\ [](/\ step \in 0..StepBudget
          /\ step = returnedCalls(frame))
    /\ [][(pc = "choosing" /\ nextAction'.type = "answer") \/ pc = "answering"
            => step' = step]_vars

AnsweredAfterThreeCalls ==
    /\ pc = "done" /\ answerChosen
    /\ searchCalls = 2 /\ scrapeCalls = 1
    /\ step = 3

\* C22: while the user is no admin, the requests recorded for the day do not
\* exceed DAILY_REQUEST_LIMIT.
DailyLimitKept == ~isAdmin => userRequests <= DAILY_REQUEST_LIMIT

\* the rows of the messages table that belong to a chat
messagesOf(chatId) == {m \in msgTable : m.chatId = chatId}

\* call c is in progress on a chat that belongs to another user
onForeignChat(c) ==
    /\ calls[c].pc # "idle"
    /\ chatTable[calls[c].opts.chatId] # NoChat
    /\ chatTable[calls[c].opts.chatId].userId # calls[c].opts.userId

\* C23: a step of an upsertChat call on a chat that belongs to another user
\* leaves the row of that chat and the messages of that chat as they were.
ForeignChatUntouched ==
    [][\A c \in Callers :
          onForeignChat(c) /\ calls'[c] # calls[c] =>
              /\ chatTable' = chatTable
              /\ msgTable' = msgTable]_vars

ForeignUpsertRefused ==
    \E c \in Callers :
        /\ calls[c].pc = "failed"
        /\ calls[c].opts.userId = "u1"
        /\ calls[c].opts.messages = <<M3>>
        /\ chatTable["c1"] = [userId |-> "u2", title |-> <<"title", "u2">>]
        /\ messagesOf("c1") = messageValues("c1", <<M1, M2>>)

\* no upsertChat call is in progress
allSettled == \A c \in Callers : calls[c].pc \in {"idle", "done", "failed"}

\* C24: when no upsertChat call is in progress, the messages stored for a
\* chat are the rows of the message list of one of the calls made, each
\* message at its place in that list.
StoredIsOneCallsList ==
    allSettled /\ chatTable["c1"] # NoChat =>
        \E opts \in upsertLog :
            messagesOf("c1") = messageValues("c1", opts.messages)

\* the statuses with which the routes refuse a request
Refusals == {401, 429, 400, 404}

\* handler h is between the arrival of a request and the test of the limit
beforeStream(h) == handlers[h].pc \in {"isUserAdmin", "count"}

====
